---- MODULE Spec2Model ----
(***************************************************************************)
(* StarCluster EFS plugin (starcluster/plugins/efs.py).                    *)
(*                                                                         *)
(* The plugin attaches the cluster's security group to every mount target  *)
(* of an EFS filesystem (run), mounts the filesystem on nodes (run,        *)
(* on_add_node) and detaches the group again (on_shutdown).  The EFS       *)
(* service keeps one list of security groups per mount target; every node  *)
(* has a mount point directory and a mount table.                          *)
(*                                                                         *)
(* Spec      one plugin instance; every lifecycle callback is one action   *)
(*           that runs the whole handler, an exception included: the       *)
(*           input failAt names the external call (counted from 1 in the   *)
(*           order the handler issues them) that raises, 0 for none.       *)
(* SpecRace  two clusters reconciling the same filesystem, one action per  *)
(*           boto3 call, so that their describe/modify steps interleave.   *)
(***************************************************************************)
EXTENDS Integers, Sequences, FiniteSets

\* ---------------------------------------------------------------- bounds
NumTargets == 2      \* mount targets of the filesystem
NumNodes == 2        \* nodes of the cluster; node 1 is the master
NumCreds == 2        \* security group ids known to the service
MaxInitLen == 2      \* longest group list a target starts with

Targets == 1..NumTargets
Nodes == 1..NumNodes
Creds == 1..NumCreds
Master == 1

\* two clusters share the filesystem in SpecRace; cluster k's group is k
Clusters == {1, 2}

\* the most external calls _authorize_efs, _install_efs_on_node and run issue
AuthCalls == 1 + 2 * NumTargets
InstallCalls == 5
MaxEvents == AuthCalls + InstallCalls * NumNodes

VARIABLES
    store,               \* EFS service: target -> list of security groups
    clusterGroup,        \* master.cluster_groups[0].id
    pathExists,          \* node -> mount_point exists on the node
    mounted,             \* node -> /proc/mounts has a line matching mount_point
    _new_security_group, \* plugin field, 0 while unset
    trace,               \* external calls issued by the last handler, in order
    failedAt,            \* index in trace of the call that raised, 0 if none
    lastCall,            \* the last handler: its name and its node arguments
    before,              \* service and node state when the last handler started
    life,                \* position in the lifecycle run -> add/remove* -> shutdown
    prevAuthorized,      \* the handler before the last completed _authorize_efs
    initial,             \* target -> groups attached before the plugin acted
    mountOK,             \* node -> mount commands that succeeded
    serialized,          \* SpecRace: the callers serialize their reconciliations
    pc,                  \* SpecRace: cluster -> "idle", "describe" or "modify"
    rop,                 \* SpecRace: cluster -> reconciliation in progress
    ridx,                \* SpecRace: cluster -> index of the target in hand
    rgroups,             \* SpecRace: cluster -> the list it fetched
    done                 \* SpecRace: cluster -> its last completed reconciliation

nodeVars == <<pathExists, mounted, mountOK>>
callVars == <<_new_security_group, trace, failedAt, lastCall, before, life,
              prevAuthorized, initial>>
raceVars == <<serialized, pc, rop, ridx, rgroups, done>>
vars == <<store, clusterGroup, nodeVars, callVars, raceVars>>

\* ------------------------------------------------------- Python helpers
Range(s) == {s[i] : i \in 1..Len(s)}

Count(s, x) == Cardinality({i \in 1..Len(s) : s[i] = x})

NoDuplicates(s) == \A i, j \in 1..Len(s) : s[i] = s[j] => i = j

\* The order in which a Python set of group ids is iterated.  Group ids are
\* opaque and only compared for equality, so they are numbered here in that
\* order; clusterGroup and the initial lists range over all of them.
hash_order == [i \in 1..NumCreds |-> i]

\* list(set(groups)): each element once, in the set's iteration order
list_set(groups) == SelectSeq(hash_order, LAMBDA g : g \in Range(groups))

\* mutant: drops the last element whatever it is
list_remove_last(groups, x) ==
    IF groups = <<>> THEN groups ELSE SubSeq(groups, 1, Len(groups) - 1)

\* list.remove(x): drops the first occurrence (ValueError when there is none)
list_remove(groups, x) ==
    IF x \notin Range(groups) THEN groups
    ELSE LET i == CHOOSE k \in 1..Len(groups) :
                      groups[k] = x /\ \A j \in 1..(k - 1) : groups[j] # x
         IN  SubSeq(groups, 1, i - 1) \o SubSeq(groups, i + 1, Len(groups))

\* ---------------------------------------------------- one handler's run
\* An execution state is a record of the service and node state together
\* with the calls issued so far and the index of the call that raised.

raised(s) == s.failedAt # 0

\* mutant: the exception is swallowed and the handler goes on issuing calls
Issue_swallowed(s, ev, failAt) ==
    [s EXCEPT !.trace = Append(@, ev),
              !.failedAt = IF Len(s.trace) + 1 = failAt THEN failAt ELSE @]

\* An external call (boto3 or ssh).  After an exception nothing more runs.
Issue(s, ev, failAt) ==
    IF raised(s) THEN s
    ELSE [s EXCEPT !.trace = Append(@, ev),
                   !.failedAt = IF Len(s.trace) + 1 = failAt THEN failAt ELSE 0]

\* The statements after a call run only if nothing has been raised.
Effect(s, t) == IF raised(s) THEN s ELSE t

\* _get_mount_targets: the filesystem's mount targets, in listing order
_get_mount_targets(s, failAt) == Issue(s, <<"describe_mount_targets", 0>>, failAt)

mount_targets == [i \in 1..NumTargets |-> i]

\* mutant: the list is written back without the set() pass
newgroups_nodedup(oldgroups, group) == Append(oldgroups, group)

\* mutant: the fetched list is dropped and only the new group written
newgroups_overwrite(oldgroups, group) == <<group>>

\* lines 94-96: oldgroups.append(group); newgroups = list(set(oldgroups))
newgroups(oldgroups, group) == list_set(Append(oldgroups, group))

RECURSIVE authorize_loop(_, _, _, _)
authorize_loop(s, i, group, failAt) ==
    IF i > Len(mount_targets) \/ raised(s) THEN s
    ELSE LET t == mount_targets[i]
             d == Issue(s, <<"describe_mount_target_security_groups", t>>, failAt)
             m == Issue(d, <<"modify_mount_target_security_groups", t>>, failAt)
             w == Effect(m, [m EXCEPT !.store[t] = newgroups(d.store[t], group)])
         IN  authorize_loop(w, i + 1, group, failAt)

_authorize_efs(s, group, failAt) ==
    authorize_loop(_get_mount_targets(s, failAt), 1, group, failAt)

\* mutants: the ValueError branch sets found_group like the other, or the
\* other like it
found_group_always(groups, group) == TRUE

found_group_never(groups, group) == FALSE

\* lines 114-120: try: groups.remove(group) ... except ValueError
found_group(groups, group) == group \in Range(groups)

RECURSIVE deauthorize_loop(_, _, _, _)
deauthorize_loop(s, i, group, failAt) ==
    IF i > Len(mount_targets) \/ raised(s) THEN s
    ELSE LET t == mount_targets[i]
             d == Issue(s, <<"describe_mount_target_security_groups", t>>, failAt)
             groups == list_remove(d.store[t], group)
             w == IF raised(d) \/ ~found_group(d.store[t], group) THEN d
                  ELSE LET m == Issue(d, <<"modify_mount_target_security_groups", t>>,
                                      failAt)
                       IN  Effect(m, [m EXCEPT !.store[t] = groups])
         IN  deauthorize_loop(w, i + 1, group, failAt)

_deauthorize_efs(s, group, failAt) ==
    deauthorize_loop(_get_mount_targets(s, failAt), 1, group, failAt)

\* mutant: the output of grep is not looked at
mount_info_ignored(s, node) == FALSE

\* lines 144-146: the output of grep mount_point /proc/mounts is non-empty
mount_info(s, node) == s.mounted[node]

_install_efs_on_node(s, node, failAt) ==
    LET p  == Issue(s, <<"path_exists", node>>, failAt)
        k  == IF raised(p) \/ p.pathExists[node] THEN p
              ELSE LET q == Issue(p, <<"makedirs", node>>, failAt)
                   IN  Effect(q, [q EXCEPT !.pathExists[node] = TRUE])
        z  == Issue(k, <<"ec2metadata", node>>, failAt)
        g  == Issue(z, <<"grep", node>>, failAt)
    IN  IF raised(g) \/ mount_info(g, node) THEN g
        ELSE LET x == Issue(g, <<"mount", node>>, failAt)
             IN  Effect(x, [x EXCEPT !.mounted[node] = TRUE,
                                     !.mountOK[node] = @ + 1])

RECURSIVE install_loop(_, _, _, _)
install_loop(s, nodes, i, failAt) ==
    IF i > Len(nodes) \/ raised(s) THEN s
    ELSE install_loop(_install_efs_on_node(s, nodes[i], failAt), nodes, i + 1, failAt)

\* mutant: run mounts the nodes before it authorizes
run_body_mount_first(s, nodes, group, failAt) ==
    _authorize_efs(install_loop(s, nodes, 1, failAt), group, failAt)

\* mutant: on_remove_node unmounts the filesystem on the node
on_remove_node_umount(s, node) ==
    [Issue(s, <<"umount", node>>, 0) EXCEPT !.mounted[node] = FALSE]

\* the handlers' bodies
run_body(s, nodes, group, failAt) ==
    install_loop(_authorize_efs(s, group, failAt), nodes, 1, failAt)

on_add_node_body(s, node, failAt) == _install_efs_on_node(s, node, failAt)

on_remove_node_body(s, node) == s

on_shutdown_body(s, group, failAt) == _deauthorize_efs(s, group, failAt)

\* ------------------------------------------------------------ the state
\* a nodes list the framework can hand to run: the master and any others
NodeLists == {SelectSeq([i \in 1..NumNodes |-> i], LAMBDA n : n \in ms) :
                 ms \in {m \in SUBSET Nodes : Master \in m}}

Start == [store |-> store, pathExists |-> pathExists, mounted |-> mounted,
          mountOK |-> mountOK, trace |-> <<>>, failedAt |-> 0]

\* the last handler was run and its _authorize_efs returned
AuthorizeCompleted ==
    /\ lastCall.name = "run"
    /\ Len(trace) >= AuthCalls
    /\ failedAt \notin 1..AuthCalls

NextLife(call, s) ==
    CASE call = "run" -> IF life = "fresh" /\ ~raised(s) THEN "up" ELSE "off"
      [] call = "on_shutdown" -> IF life = "up" /\ ~raised(s) THEN "down" ELSE "off"
      [] OTHER -> IF life = "up" /\ ~raised(s) THEN "up" ELSE "off"

Commit(s, call, nodes) ==
    /\ store' = s.store
    /\ pathExists' = s.pathExists
    /\ mounted' = s.mounted
    /\ mountOK' = s.mountOK
    /\ trace' = s.trace
    /\ failedAt' = s.failedAt
    /\ lastCall' = [name |-> call, nodes |-> nodes]
    /\ before' = [store |-> store, pathExists |-> pathExists, mounted |-> mounted]
    /\ life' = NextLife(call, s)
    /\ prevAuthorized' = AuthorizeCompleted
    /\ UNCHANGED <<clusterGroup, initial, raceVars>>

InitLists == UNION {[1..n -> Creds] : n \in 0..MaxInitLen}

InitNodes ==
    /\ pathExists = [n \in Nodes |-> FALSE]
    /\ mounted = [n \in Nodes |-> FALSE]
    /\ mountOK = [n \in Nodes |-> 0]

InitCalls ==
    /\ _new_security_group = 0
    /\ trace = <<>>
    /\ failedAt = 0
    /\ lastCall = [name |-> "none", nodes |-> <<>>]
    /\ before = [store |-> store, pathExists |-> pathExists, mounted |-> mounted]
    /\ life = "fresh"
    /\ prevAuthorized = FALSE
    /\ initial = [t \in Targets |-> Range(store[t])]

InitRace ==
    /\ pc = [k \in Clusters |-> "idle"]
    /\ rop = [k \in Clusters |-> "none"]
    /\ ridx = [k \in Clusters |-> 0]
    /\ rgroups = [k \in Clusters |-> <<>>]
    /\ done = [k \in Clusters |-> "none"]

Init ==
    /\ store \in [Targets -> InitLists]
    /\ clusterGroup \in Creds
    /\ InitNodes
    /\ InitCalls
    /\ InitRace
    /\ serialized = TRUE

run ==
    \E nodes \in NodeLists, failAt \in 0..MaxEvents :
        LET s == run_body(Start, nodes, clusterGroup, failAt)
        IN  /\ Commit(s, "run", nodes)
            /\ _new_security_group' = clusterGroup

on_add_node ==
    \E node \in Nodes, failAt \in 0..InstallCalls :
        LET s == on_add_node_body(Start, node, failAt)
        IN  /\ Commit(s, "on_add_node", <<node>>)
            /\ _new_security_group' = clusterGroup

on_remove_node ==
    \E node \in Nodes \ {Master} :
        LET s == on_remove_node_body(Start, node)
        IN  /\ Commit(s, "on_remove_node", <<node>>)
            /\ UNCHANGED _new_security_group

on_shutdown ==
    \E failAt \in 0..AuthCalls :
        LET s == on_shutdown_body(Start, clusterGroup, failAt)
        IN  /\ Commit(s, "on_shutdown", <<>>)
            /\ _new_security_group' = clusterGroup

Next == run \/ on_add_node \/ on_remove_node \/ on_shutdown

Spec == Init /\ [][Next]_vars

\* ------------------------------------------------- two clusters (SpecRace)
\* Each cluster runs _authorize_efs (its run) or _deauthorize_efs (its
\* on_shutdown) against the same filesystem, one boto3 call per step.  When
\* serialized, a reconciliation starts only while no other is in progress.
group_of(k) == k

\* a list as the service hands it out when nothing wrote a duplicate
SetLists == {list_set(l) : l \in UNION {[1..n -> Creds] : n \in 0..NumCreds}}

InitRaceSpec ==
    /\ store \in [Targets -> SetLists]
    /\ serialized \in BOOLEAN
    /\ clusterGroup = group_of(1)
    /\ InitNodes
    /\ InitCalls
    /\ InitRace

\* lines 85-87 and 105-107: describe_mount_targets, then the loop starts
r_begin(k, op) ==
    /\ pc[k] = "idle"
    /\ serialized => \A o \in Clusters : pc[o] = "idle"
    /\ pc' = [pc EXCEPT ![k] = "describe"]
    /\ rop' = [rop EXCEPT ![k] = op]
    /\ ridx' = [ridx EXCEPT ![k] = 1]
    /\ done' = [done EXCEPT ![k] = "none"]
    /\ UNCHANGED <<store, rgroups>>

\* the loop moves to the next target, or the call returns
r_advance(k) ==
    IF ridx[k] < Len(mount_targets)
    THEN /\ pc' = [pc EXCEPT ![k] = "describe"]
         /\ ridx' = [ridx EXCEPT ![k] = @ + 1]
         /\ UNCHANGED <<rop, done>>
    ELSE /\ pc' = [pc EXCEPT ![k] = "idle"]
         /\ ridx' = [ridx EXCEPT ![k] = 0]
         /\ rop' = [rop EXCEPT ![k] = "none"]
         /\ done' = [done EXCEPT ![k] = rop[k]]

\* lines 91-94 and 110-120: describe_mount_target_security_groups
r_describe(k) ==
    /\ pc[k] = "describe"
    /\ LET groups == store[mount_targets[ridx[k]]]
       IN  IF rop[k] = "authorize" \/ found_group(groups, group_of(k))
           THEN /\ pc' = [pc EXCEPT ![k] = "modify"]
                /\ rgroups' = [rgroups EXCEPT ![k] = groups]
                /\ UNCHANGED <<rop, ridx, done>>
           ELSE /\ r_advance(k)
                /\ UNCHANGED rgroups
    /\ UNCHANGED store

\* lines 95-101 and 122-126: modify_mount_target_security_groups
r_modify(k) ==
    /\ pc[k] = "modify"
    /\ store' = [store EXCEPT ![mount_targets[ridx[k]]] =
                    IF rop[k] = "authorize"
                    THEN newgroups(rgroups[k], group_of(k))
                    ELSE list_remove(rgroups[k], group_of(k))]
    /\ rgroups' = [rgroups EXCEPT ![k] = <<>>]
    /\ r_advance(k)

\* a step of a reconciliation leaves the nodes and the handlers' record alone
RaceFrame == UNCHANGED <<clusterGroup, nodeVars, callVars, serialized>>

r_authorize == RaceFrame /\ \E k \in Clusters : r_begin(k, "authorize")

r_deauthorize == RaceFrame /\ \E k \in Clusters : r_begin(k, "deauthorize")

r_describe_step == RaceFrame /\ \E k \in Clusters : r_describe(k)

r_modify_step == RaceFrame /\ \E k \in Clusters : r_modify(k)

NextRace == r_authorize \/ r_deauthorize \/ r_describe_step \/ r_modify_step

SpecRace == InitRaceSpec /\ [][NextRace]_vars

\* ------------------------------------------------------------- claims
c == clusterGroup

DescribeTargets == <<"describe_mount_targets", 0>>
Describe(t) == <<"describe_mount_target_security_groups", t>>
Modify(t) == <<"modify_mount_target_security_groups", t>>
NodeCommands == {"path_exists", "makedirs", "ec2metadata", "grep", "mount"}

Issued(ev) == ev \in Range(trace)
Times(ev) == Count(trace, ev)
\* the place of the first ev in the trace, 0 when it was not issued
At(ev) == IF Issued(ev) THEN CHOOSE i \in 1..Len(trace) :
                                 trace[i] = ev /\ \A j \in 1..(i - 1) : trace[j] # ev
          ELSE 0
Max(a, b) == IF a > b THEN a ELSE b

\* C1: two consecutive runs of _authorize_efs leave every mount target with
\* the group set the first one left, and that list holds the cluster's
\* group exactly once.
C1_AuthorizeIdempotent ==
    (prevAuthorized /\ AuthorizeCompleted) =>
        \A t \in Targets :
            /\ Range(store[t]) = Range(before.store[t])
            /\ Count(store[t], c) = 1

\* the second of two consecutive authorizations has returned, on targets
\* that first held the group, held it twice, or did not hold it
C1_Witness ==
    /\ prevAuthorized /\ AuthorizeCompleted
    /\ \E t \in Targets : c \notin initial[t]
    /\ \E t \in Targets : initial[t] = Creds

\* C2: after _authorize_efs returns, every mount target holds its previous
\* groups and the cluster's group, nothing else, each once.
C2_AuthorizeUnion ==
    AuthorizeCompleted =>
        \A t \in Targets :
            /\ Range(store[t]) = Range(before.store[t]) \cup {c}
            /\ NoDuplicates(store[t])

\* the first target held one other group and the last held it twice; both
\* now hold it and the cluster's group
C2_Witness ==
    /\ AuthorizeCompleted
    /\ \E a \in Creds \ {c} :
           /\ before.store[1] = <<a>> /\ Range(store[1]) = {a, c}
           /\ before.store[NumTargets] = <<a, a>> /\ Len(store[NumTargets]) = 2

\* C3: _deauthorize_efs writes a mount target only if the fetched list held
\* the group; a target that did not hold it keeps its list, and the loop goes
\* on to the next target without raising.
C3_DeauthorizeAbsentNoWrite ==
    lastCall.name = "on_shutdown" =>
        /\ \A t \in Targets : Issued(Modify(t)) => c \in Range(before.store[t])
        /\ \A t \in Targets :
               (c \notin Range(before.store[t])) =>
                   /\ store[t] = before.store[t]
                   /\ ~Issued(Modify(t))
                   /\ (Issued(Describe(t)) /\ At(Describe(t)) # failedAt) =>
                          IF t < NumTargets
                          THEN /\ Len(trace) > At(Describe(t))
                               /\ trace[At(Describe(t)) + 1] = Describe(t + 1)
                          ELSE Len(trace) = At(Describe(t)) /\ failedAt = 0

\* a shutdown that skipped the first target and wrote the second
C3_Witness ==
    /\ lastCall.name = "on_shutdown" /\ failedAt = 0
    /\ c \notin Range(before.store[1]) /\ before.store[1] # <<>>
    /\ c \in Range(before.store[NumTargets]) /\ Issued(Modify(NumTargets))

C6_MountIdempotent ==
    \A n \in Nodes :
        /\ before.mounted[n] => ~Issued(<<"mount", n>>)
        /\ (Issued(<<"grep", n>>) /\ failedAt = 0) => mounted[n]
        /\ mountOK[n] <= 1
        /\ Times(<<"mount", n>>) <= 1

\* a second call on a mounted node took the already-mounted branch
C6_Witness ==
    \E n \in Nodes :
        /\ before.mounted[n] /\ mountOK[n] = 1
        /\ Issued(<<"grep", n>>) /\ At(<<"grep", n>>) = Len(trace)
        /\ failedAt = 0

\* C7: in a lifecycle without failures, run authorizes once and on every
\* target before its first node command, then installs on every node of its
\* list; every target holds the group until on_shutdown, which deauthorizes
\* once, and none holds it afterwards.
C7_Lifecycle ==
    /\ (lastCall.name = "run" /\ failedAt = 0) =>
           /\ Times(DescribeTargets) = 1 /\ trace[1] = DescribeTargets
           /\ \A t \in Targets :
                  /\ Times(Describe(t)) = 1 /\ Times(Modify(t)) = 1
                  /\ At(Describe(t)) < At(Modify(t)) /\ At(Modify(t)) <= AuthCalls
           /\ \A i \in 1..Len(trace) : (trace[i][1] \in NodeCommands) <=> (i > AuthCalls)
           /\ \A n \in Range(lastCall.nodes) : Issued(<<"grep", n>>) /\ mounted[n]
    /\ life = "up" => \A t \in Targets : c \in Range(store[t])
    /\ life = "down" =>
           /\ lastCall.name = "on_shutdown" /\ Times(DescribeTargets) = 1
           /\ \A t \in Targets : c \notin Range(store[t])

\* a whole lifecycle ended, over a target that held the group twice at first
C7_Witness ==
    /\ life = "down"
    /\ \E t \in Targets : initial[t] = {c} /\ Len(before.store[t]) = 1
    /\ \A n \in Nodes : mounted[n]

\* C8: on_add_node issues commands to its node only and on_remove_node issues
\* none; neither reads or writes a mount target, and on_remove_node changes no
\* node.
C8_NodeHandlersFrame ==
    /\ lastCall.name = "on_add_node" =>
           /\ store = before.store
           /\ \A i \in 1..Len(trace) :
                  trace[i][1] \in NodeCommands /\ trace[i][2] = lastCall.nodes[1]
           /\ \A n \in Nodes \ {lastCall.nodes[1]} :
                  pathExists[n] = before.pathExists[n] /\ mounted[n] = before.mounted[n]
    /\ lastCall.name = "on_remove_node" =>
           /\ trace = <<>> /\ failedAt = 0
           /\ store = before.store
           /\ pathExists = before.pathExists /\ mounted = before.mounted

\* a node was added and mounted while another node was not and while the
\* group was attached to one target only
C8_Witness ==
    /\ lastCall.name = "on_add_node" /\ Issued(<<"mount", lastCall.nodes[1]>>)
    /\ failedAt = 0
    /\ \E n \in Nodes : ~mounted[n]
    /\ \E t \in Targets : c \notin Range(store[t])
    /\ \E t \in Targets : c \in Range(store[t])

\* a mounted node was removed while the group was attached
C8_RemoveReached ==
    /\ lastCall.name = "on_remove_node" /\ mounted[lastCall.nodes[1]]
    /\ \E t \in Targets : c \in Range(store[t])

\* C9: a call that raises is the last one the handler issues; when it is the
\* fetch or the update of target k, target k and the later ones keep their
\* lists and are not touched further, the earlier ones keep what was written
\* to them, and run issues no node command.
C9_FailFast ==
    failedAt # 0 =>
        /\ failedAt = Len(trace)
        /\ \A k \in Targets :
               trace[failedAt] \in {Describe(k), Modify(k)} =>
                   /\ \A j \in Targets :
                          j >= k => store[j] = before.store[j]
                   /\ \A j \in Targets :
                          j > k => ~Issued(Describe(j)) /\ ~Issued(Modify(j))
                   /\ \A j \in Targets :
                          j < k =>
                              IF lastCall.name = "run"
                              THEN /\ Range(store[j]) = Range(before.store[j]) \cup {c}
                                   /\ Issued(Modify(j))
                              ELSE \A g \in Creds :
                                       Count(store[j], g) =
                                           IF g = c
                                           THEN Max(Count(before.store[j], g) - 1, 0)
                                           ELSE Count(before.store[j], g)
                   /\ \A i \in 1..Len(trace) : trace[i][1] \notin NodeCommands
        /\ trace[failedAt] = DescribeTargets => store = before.store

\* run raised at the update of the last target after changing the first
C9_Witness ==
    /\ lastCall.name = "run" /\ failedAt # 0
    /\ trace[failedAt] = Modify(NumTargets)
    /\ store[1] # before.store[1]

\* no reconciliation is in progress
AllIdle == \A k \in Clusters : pc[k] = "idle"

\* a cluster's last completed reconciliation does not show on some target
LostUpdate ==
    \E k \in Clusters, t \in Targets :
        \/ done[k] = "authorize" /\ group_of(k) \notin Range(store[t])
        \/ done[k] = "deauthorize" /\ group_of(k) \in Range(store[t])

\* C10: when the clusters' reconciliations are serialized, every cluster's
\* last completed authorize shows on every target and its last completed
\* deauthorize on none; interleaved, one of them can be lost.
C10_SerializedNoLostUpdate == serialized => ~LostUpdate

\* interleaved reconciliations have all returned and one update is lost
C10_LostUpdateReached ==
    /\ ~serialized /\ AllIdle /\ LostUpdate
    /\ \A k \in Clusters : done[k] # "none"

====
